---- MODULE Spec2Model ----
(***************************************************************************)
(* Model of the LiveConversation component of src/features/ChatBot.tsx:    *)
(* the connection lifecycle (start, stop, reconnect, compaction restart),  *)
(* the transcript assembler and the playback scheduler.                    *)
(*                                                                         *)
(* React state and refs are the variables.  A handler is an operator from  *)
(* a snapshot of the state (a record, see Cur) to the snapshot it leaves;  *)
(* an action commits the snapshot a handler returns, after running the     *)
(* compaction effect of lines 1276-1283 on it, as React does after the     *)
(* render that follows the handler.                                        *)
(*                                                                         *)
(* A closure created by handleStartConversation keeps the values of the    *)
(* render it was created in: every in-flight start, connection, timer and  *)
(* summarization request carries the reconnectAttempts value its closure   *)
(* captured (field cap).                                                   *)
(***************************************************************************)
EXTENDS Integers, Sequences, FiniteSets, TLC

\* ------------------------------------------------------------- constants
HISTORY_SUMMARY_THRESHOLD == 10
MAX_RECONNECT_ATTEMPTS == 3
SUMMARY_THRESHOLD == 5
\* e.code of a normal closure, the one code onclose does not retry on
NormalClosure == 1000
\* e.code of an abnormal closure, standing for every code other than 1000
AbnormalClosure == 1006

\* ---------------------------------------------------------------- bounds
\* handleStartConversation calls in one behaviour of Spec
MaxStarts == 2
\* handleStartConversation calls in one behaviour of SpecTurns and SpecAudio
MaxAudioStarts == 2
\* handleStartConversation calls in one behaviour of SpecRetry
MaxRetryStarts == 5
\* transcript entries beyond which no further turn is generated, in
\* SpecCompaction
MaxTranscript == 5
\* the same, in Spec
MaxLifeTranscript == 2
\* the same, in SpecTurns and SpecAudio
MaxTurns == 2
\* words in one side of the open turn, in SpecTurns
MaxTextLen == 2
\* the same, in the other specifications
MaxConnText == 1
\* audio chunks received in one behaviour
MaxChunks == 2
\* ticks of the playback clock of one output AudioContext
MaxTime == 1
\* interruption signals received in one behaviour
MaxInterrupts == 1
\* handleStartConversation calls in one behaviour of SpecTools
MaxToolStarts == 1
\* function calls received in one behaviour
MaxToolCalls == 3
\* function calls in one toolCall message
MaxBatchLen == 2
\* messages of the text chat in one behaviour of SpecChat
MaxMessages == 14
\* messages of a stored chat history
MaxStored == 10
\* handleStartConversation calls in one behaviour of SpecCapture
MaxCaptureStarts == 2
\* onaudioprocess callbacks in one behaviour
MaxCallbacks == 3
\* handleStartConversation calls in one behaviour of SpecToolsLife
MaxLifeStarts == 2
\* function calls received in one behaviour of SpecToolsLife
MaxLifeToolCalls == 1
\* session files chosen in one behaviour
MaxLoads == 1

VARIABLES
    connectionState,        \* useState<ConnectionState>
    reconnectAttempts,      \* useState(0)
    transcripts,            \* useState<{user, model}[]>
    currentInterim,         \* useState<{user, model}>
    isSummarizing,          \* useState(false)
    isPaused,               \* useState(false); isPausedRef follows it (line 710)
    micGain,                \* useState(1.0), in tenths
    error,                  \* useState<FormattedError | null>: TRUE = an error is shown
    sessionPromiseRef,      \* id of the connection the ref holds, 0 = null
    mediaStreamRef,         \* id of the start call that acquired it, 0 = null
    audioContextRef,        \* same, input AudioContext
    outputAudioContextRef,  \* same, output AudioContext
    outputGainNodeRef,      \* same, output GainNode
    scriptProcessorRef,     \* id of the connection whose onopen made it, 0 = null
    micGainNodeRef,         \* same, mic GainNode
    conversationSummaryRef, \* "null" or "summary"
    nextStartTimeRef,       \* useRef(0)
    sourcesRef,             \* Set<AudioBufferSourceNode>
    conns,                  \* every connectLive call so far, by id
    starts,                 \* handleStartConversation calls suspended at an await
    nStarts,                \* handleStartConversation calls so far (their ids)
    timers,                 \* armed reconnect timers (line 1229)
    summaries,              \* summarizeConversation calls in flight (line 1255)
    restartTimers,          \* armed 500 ms restart timers (line 1262)
    reads,                  \* FileReader loads in flight (line 877)
    nLoads,                 \* handleLoadSession calls so far
    decodes,                \* decodeAudioData calls in flight (line 1203)
    now,                    \* currentTime of the current output AudioContext
    closedContexts,         \* ids of the closed input AudioContexts whose start call
                            \* has not had its onopen yet
    toolCalls,              \* handleToolCall calls suspended at an await
    nToolCalls,             \* function calls received so far (their ids)
    chatBot,                \* the ChatBot component (lines 46-520): messages, isLoading,
                            \* isSummarizing, chat (the history its Chat was made with),
                            \* loaded (initializeChatState has resolved), calls (the
                            \* summarizeHistory calls suspended at an await) and
                            \* nSummarize (the summarizeHistory calls that went past
                            \* line 266, history)
    \* history, read by the properties only
    autoRetries,            \* handleStartConversation(true) calls since the last open
    started,                \* source.start calls, in order
    stopped,                \* chunks whose source.stop was called
    nChunks,                \* audio chunks received
    intrDone,               \* interruptions processed
    nSummaryCalls,          \* summarizeConversation calls issued
    toolResponses,          \* sendToolResponse calls, in order
    frames,                 \* onaudioprocess callbacks: frames sent and suppressed
    lastTurnMsg             \* the last message with a delta or a turn-complete

vars == << connectionState, reconnectAttempts, transcripts, currentInterim,
           isSummarizing, isPaused, micGain, error, sessionPromiseRef, mediaStreamRef,
           audioContextRef, outputAudioContextRef, outputGainNodeRef,
           scriptProcessorRef, micGainNodeRef, conversationSummaryRef,
           nextStartTimeRef, sourcesRef, conns, starts, nStarts, timers,
           summaries, restartTimers, reads, nLoads, decodes, now, closedContexts,
           toolCalls,
           nToolCalls,
           autoRetries, started, stopped, nChunks, intrDone, nSummaryCalls,
           toolResponses, frames, lastTurnMsg, chatBot >>

\* the state of LiveConversation (lines 672-1461)
liveVars == << connectionState, reconnectAttempts, transcripts, currentInterim,
               isSummarizing, isPaused, micGain, error, sessionPromiseRef,
               mediaStreamRef, audioContextRef, outputAudioContextRef,
               outputGainNodeRef, scriptProcessorRef, micGainNodeRef,
               conversationSummaryRef, nextStartTimeRef, sourcesRef, conns, starts,
               nStarts, timers, summaries, restartTimers, reads, nLoads, decodes, now,
               closedContexts, toolCalls, nToolCalls, autoRetries, started, stopped,
               nChunks, intrDone, nSummaryCalls, toolResponses, frames, lastTurnMsg >>

\* ----------------------------------------------------------------- texts
\* A text is a sequence of words; '' is the empty sequence.
NoText == << >>
Hi == << "Hi" >>
Ok == << "Ok" >>
EmptyTurn == [user |-> NoText, model |-> NoText]
HiTurn == [user |-> Hi, model |-> NoText]
\* line 1258
summaryNotification == [user |-> NoText, model |-> << "[System:", "summarized]" >>]
\* String.prototype.includes('System:') on a text
IncludesSystem(text) == \E i \in DOMAIN text : text[i] = "[System:"

Max(a, b) == IF a >= b THEN a ELSE b
\* no onaudioprocess callback has run yet
NoFrames == [sent |-> 0, skipped |-> 0, last |-> "none", gain |-> 0, gains |-> {},
             from |-> 0, to |-> 0]
RemoveAt(seq, i) == SubSeq(seq, 1, i - 1) \o SubSeq(seq, i + 1, Len(seq))

\* -------------------------------------------------------------- snapshot
Cur == [ connectionState |-> connectionState,
         reconnectAttempts |-> reconnectAttempts,
         transcripts |-> transcripts,
         currentInterim |-> currentInterim,
         isSummarizing |-> isSummarizing,
         isPaused |-> isPaused,
         micGain |-> micGain,
         error |-> error,
         sessionPromiseRef |-> sessionPromiseRef,
         mediaStreamRef |-> mediaStreamRef,
         audioContextRef |-> audioContextRef,
         outputAudioContextRef |-> outputAudioContextRef,
         outputGainNodeRef |-> outputGainNodeRef,
         scriptProcessorRef |-> scriptProcessorRef,
         micGainNodeRef |-> micGainNodeRef,
         conversationSummaryRef |-> conversationSummaryRef,
         nextStartTimeRef |-> nextStartTimeRef,
         sourcesRef |-> sourcesRef,
         conns |-> conns,
         starts |-> starts,
         nStarts |-> nStarts,
         timers |-> timers,
         summaries |-> summaries,
         restartTimers |-> restartTimers,
         reads |-> reads,
         nLoads |-> nLoads,
         decodes |-> decodes,
         now |-> now,
         closedContexts |-> closedContexts,
         toolCalls |-> toolCalls,
         nToolCalls |-> nToolCalls,
         autoRetries |-> autoRetries,
         started |-> started,
         stopped |-> stopped,
         nChunks |-> nChunks,
         intrDone |-> intrDone,
         nSummaryCalls |-> nSummaryCalls,
         toolResponses |-> toolResponses,
         frames |-> frames,
         lastTurnMsg |-> lastTurnMsg ]

Init ==
    /\ connectionState = "idle"
    /\ reconnectAttempts = 0
    /\ transcripts = << >>
    /\ currentInterim = EmptyTurn
    /\ isSummarizing = FALSE
    /\ isPaused = FALSE
    /\ micGain = 10
    /\ error = FALSE
    /\ sessionPromiseRef = 0
    /\ mediaStreamRef = 0
    /\ audioContextRef = 0
    /\ outputAudioContextRef = 0
    /\ outputGainNodeRef = 0
    /\ scriptProcessorRef = 0
    /\ micGainNodeRef = 0
    /\ conversationSummaryRef = "null"
    /\ nextStartTimeRef = 0
    /\ sourcesRef = {}
    /\ conns = << >>
    /\ starts = << >>
    /\ nStarts = 0
    /\ timers = << >>
    /\ summaries = << >>
    /\ restartTimers = << >>
    /\ reads = 0
    /\ nLoads = 0
    /\ decodes = {}
    /\ now = 0
    /\ closedContexts = {}
    /\ toolCalls = << >>
    /\ nToolCalls = 0
    /\ autoRetries = 0
    /\ started = << >>
    /\ stopped = {}
    /\ nChunks = 0
    /\ intrDone = 0
    /\ nSummaryCalls = 0
    /\ toolResponses = << >>
    /\ frames = NoFrames
    /\ lastTurnMsg = [m |-> EmptyTurn, turnComplete |-> FALSE, open |-> EmptyTurn,
                      tick |-> FALSE]
    /\ chatBot = [messages |-> << >>, isLoading |-> FALSE, isSummarizing |-> FALSE,
                  chat |-> [history |-> 0], loaded |-> FALSE, calls |-> << >>,
                  nSummarize |-> 0]

\* ============================================================== handlers
\* isBusy, line 1326
isBusy(s) ==
    s.connectionState = "connecting" \/ s.connectionState = "reconnecting" \/ s.isSummarizing

\* session.close() on connection c (line 741): closes an open channel; the
\* close event follows as a separate event.  No effect on a channel that is
\* already closing, failing or closed.
sessionClose(cs, c) ==
    IF cs[c].status = "open"
    THEN [cs EXCEPT ![c].status = "closing"]
    ELSE cs

\* sessionPromiseRef.current?.then(session => session.close()), line 741.
\* On a promise still pending the close is run when the promise resolves
\* (closeReq); a promise of a channel that never opened never resolves.
\* voluntary records (for the properties only) that the close was asked for
\* on an open channel.
closeWhenResolved(cs, c) ==
    IF c = 0 THEN cs
    ELSE IF cs[c].status = "opening" THEN [cs EXCEPT ![c].closeReq = TRUE]
    ELSE IF cs[c].status = "open"
         THEN [sessionClose(cs, c) EXCEPT ![c].voluntary = TRUE]
    ELSE cs

\* scriptProcessorRef.current?.disconnect() and audioContextRef.current?.close()
\* (lines 746-747, 755-756): the script processor the ref holds is detached,
\* and no script processor of the closed input context runs any more.
detachTaps(cs, proc, ctx) ==
    [c \in DOMAIN cs |->
        IF c = proc \/ (ctx # 0 /\ cs[c].ctx = ctx)
        THEN [cs[c] EXCEPT !.tap = FALSE] ELSE cs[c]]

\* lines 740-767
handleStopConversation(s) ==
    [s EXCEPT !.conns = detachTaps(closeWhenResolved(s.conns, s.sessionPromiseRef),
                                   s.scriptProcessorRef, s.audioContextRef),
              !.sessionPromiseRef = 0,
              !.mediaStreamRef = 0,
              !.scriptProcessorRef = 0,
              !.micGainNodeRef = 0,
              !.outputGainNodeRef = 0,
              !.audioContextRef = 0,
              !.closedContexts = s.closedContexts \cup
                  {id \in {s.audioContextRef} :
                      \/ \E i \in DOMAIN s.starts : s.starts[i].id = id
                      \/ \E c \in DOMAIN s.conns :
                             s.conns[c].ctx = id /\ s.conns[c].status = "opening"},
              !.outputAudioContextRef = 0,
              !.stopped = s.stopped \cup {src.id : src \in s.sourcesRef},
              !.sourcesRef = {},
              !.connectionState = "idle",
              !.isPaused = FALSE]

\* handleStartConversation with the isRetry test of line 1110 dropped
handleStartAlwaysReset(s, isRetry, cap) ==
    [s EXCEPT !.reconnectAttempts = 0,
              !.transcripts = << >>,
              !.currentInterim = EmptyTurn,
              !.conversationSummaryRef = "null",
              !.connectionState = "connecting",
              !.nStarts = s.nStarts + 1,
              !.error = FALSE,
              !.starts = Append(s.starts,
                  [id |-> s.nStarts + 1, isRetry |-> isRetry, cap |-> cap,
                   micGain |-> s.micGain,
                   origin |-> IF isRetry THEN "retry" ELSE "button",
                   stage |-> "media"]),
              !.autoRetries = IF isRetry THEN s.autoRetries + 1 ELSE 0]

\* lines 1109-1119: the part of handleStartConversation before its first
\* await.  cap is the reconnectAttempts of the render whose closure is called.
\* No caller passes customSystemInstruction, so line 1115 always runs.
\* The start record keeps the micGain the closure captured (the current one
\* when the Start button calls it; see calledBy for the other callers) and
\* origin, the call site, which only the properties read.
handleStartConversation(s, isRetry, cap) ==
    LET r == IF isRetry THEN s
             ELSE [s EXCEPT !.reconnectAttempts = 0,
                            !.transcripts = << >>,
                            !.currentInterim = EmptyTurn,
                            !.conversationSummaryRef = "null"]
    IN [r EXCEPT !.connectionState = "connecting",
                 !.error = FALSE,
                 !.nStarts = s.nStarts + 1,
                 !.starts = Append(s.starts,
                     [id |-> s.nStarts + 1, isRetry |-> isRetry, cap |-> cap,
                      micGain |-> s.micGain,
                      origin |-> IF isRetry THEN "retry" ELSE "button",
                      stage |-> "media"]),
                 !.autoRetries = IF isRetry THEN s.autoRetries + 1 ELSE 0]

\* A handleStartConversation called from a timer or from summarizeAndRestart
\* is the closure of an earlier render: r is the state its call left, g the
\* micGain that closure captured and o the call site.
calledBy(r, g, o) ==
    [r EXCEPT !.starts = [r.starts EXCEPT ![Len(r.starts)].micGain = g,
                                          ![Len(r.starts)].origin = o]]

\* lines 1122-1134: getUserMedia resolved; stream, contexts and output gain
\* node are created and stored, then line 1137 awaits the voice preference.
mediaGranted(s, i) ==
    LET id == s.starts[i].id
    IN [s EXCEPT !.mediaStreamRef = id,
                 !.audioContextRef = id,
                 !.outputAudioContextRef = id,
                 !.outputGainNodeRef = id,
                 !.now = 0,
                 !.starts = [s.starts EXCEPT ![i].stage = "voice"]]

\* lines 1143-1157 and 1234-1236: connectLive is issued and its promise stored.
connectLive(s, i) ==
    LET st == s.starts[i]
        c == Len(s.conns) + 1
    IN [s EXCEPT !.conns = Append(s.conns,
                     [status |-> "opening", cap |-> st.cap, closeReq |-> FALSE,
                      voluntary |-> FALSE, ctx |-> st.id,
                      summary |-> (s.conversationSummaryRef # "null"),
                      micGain |-> st.micGain, micNodeGain |-> st.micGain,
                      tap |-> FALSE, opened |-> FALSE, origin |-> st.origin]),
                 !.sessionPromiseRef = c,
                 !.starts = RemoveAt(s.starts, i)]

\* startFailed scheduling a retry as onclose does
startFailedRetries(s, i) ==
    [s EXCEPT !.connectionState = "reconnecting",
              !.error = TRUE,
              !.timers = Append(s.timers,
                                [cap |-> s.starts[i].cap, micGain |-> s.starts[i].micGain]),
              !.starts = RemoveAt(s.starts, i)]

\* lines 1238-1242: an await of the try block rejected.
startFailed(s, i) ==
    [s EXCEPT !.connectionState = "error",
              !.error = TRUE,
              !.closedContexts = s.closedContexts \ {s.starts[i].id},
              !.starts = RemoveAt(s.starts, i)]

\* lines 1158-1180, then the pending then(session => session.close()) of a
\* stop that ran while the channel was opening.  The nodes are made on the
\* input context the start call created: when that context has been closed
\* in the meantime no callback of the script processor ever runs, and
\* createMediaStreamSource (line 1161) either raises (throws: the rest of
\* the callback is skipped) or the nodes are made and stored all the same.
onopen(s, c, throws) ==
    LET closed == s.conns[c].ctx \in s.closedContexts
        opened == [s.conns EXCEPT ![c].status = "open",
                                  ![c].closeReq = FALSE,
                                  ![c].micNodeGain = s.conns[c].micGain,
                                  ![c].tap = ~closed,
                                  ![c].opened = TRUE]
    IN [s EXCEPT !.connectionState = "connected",
                 !.reconnectAttempts = 0,
                 !.scriptProcessorRef = IF closed /\ throws THEN s.scriptProcessorRef ELSE c,
                 !.micGainNodeRef = IF closed /\ throws THEN s.micGainNodeRef ELSE c,
                 !.conns = IF s.conns[c].closeReq THEN sessionClose(opened, c)
                           ELSE opened,
                 !.closedContexts = s.closedContexts \ {s.conns[c].ctx},
                 !.autoRetries = 0]

\* lines 1224-1233; the closure's reconnectAttempts is the connection's cap and
\* its handleStartConversation is the closure that made the connection.
onclose(s, c, code) ==
    LET cap == s.conns[c].cap
        closed == [s.conns EXCEPT ![c].status = "closed", ![c].closeReq = FALSE,
                                  ![c].voluntary = FALSE,
                                  ![c].cap = 0]
        rest == s.closedContexts \ {s.conns[c].ctx}
    IN IF code # NormalClosure /\ cap < MAX_RECONNECT_ATTEMPTS
       THEN [s EXCEPT !.conns = closed,
                      !.closedContexts = rest,
                      !.connectionState = "reconnecting",
                      !.reconnectAttempts = cap + 1,
                      !.timers = Append(s.timers,
                                        [cap |-> cap, micGain |-> s.conns[c].micGain])]
       ELSE [s EXCEPT !.conns = closed,
                      !.closedContexts = rest,
                      !.connectionState = "closed"]

\* lines 1218-1223; the channel that raised the error closes abnormally next.
onerror(s, c) ==
    handleStopConversation(
        [s EXCEPT !.connectionState = "error",
                  !.error = TRUE,
                  !.conns = [s.conns EXCEPT ![c].status = "failing"]])

\* ------------------------------------------------- playback and transcript
\* interrupt with lines 1213-1214 dropped: only the cursor is reset
interruptCursorOnly(s, before) ==
    [s EXCEPT !.nextStartTimeRef = 0,
              !.intrDone = s.intrDone + 1,
              !.decodes = {IF d.id < before THEN [d EXCEPT !.intr = TRUE] ELSE d
                           : d \in s.decodes}]

\* lines 1213-1215.  before: pending chunks received before the message that
\* carried the signal (their history flag intr is set).
interrupt(s, before) ==
    [s EXCEPT !.stopped = s.stopped \cup {src.id : src \in s.sourcesRef},
              !.sourcesRef = {},
              !.nextStartTimeRef = 0,
              !.intrDone = s.intrDone + 1,
              !.decodes = {IF d.id < before THEN [d EXCEPT !.intr = TRUE] ELSE d
                           : d \in s.decodes}]

\* lines 1185-1190: both transcription deltas of one message
applyDeltas(cur, m) ==
    [user |-> cur.user \o m.user, model |-> cur.model \o m.model]

\* turnComplete with the test of line 1193 dropped
turnCompleteAlways(s) ==
    [s EXCEPT !.transcripts = Append(s.transcripts, s.currentInterim),
              !.currentInterim = EmptyTurn]

\* lines 1191-1198
turnComplete(s) ==
    [s EXCEPT !.transcripts =
                  IF s.currentInterim.user # NoText \/ s.currentInterim.model # NoText
                  THEN Append(s.transcripts, s.currentInterim)
                  ELSE s.transcripts,
              !.currentInterim = EmptyTurn]

\* lines 1181-1217 up to the await of line 1203 (the whole handler when the
\* message carries no audio or no output context exists).  m.audio is the
\* duration of the chunk the message carries, 0 for none.  recv (the clock at
\* line 1202) and intrAt (the interruptions processed before the chunk
\* arrived) are history, read by the properties only.
onmessage(s, c, m) ==
    LET s1 == [s EXCEPT !.currentInterim = applyDeltas(s.currentInterim, m),
                        !.lastTurnMsg =
                            IF m.user # NoText \/ m.model # NoText \/ m.turnComplete
                            THEN [m |-> [user |-> m.user, model |-> m.model],
                                  turnComplete |-> m.turnComplete,
                                  open |-> s.currentInterim,
                                  tick |-> ~s.lastTurnMsg.tick]
                            ELSE s.lastTurnMsg]
        s2 == IF m.turnComplete THEN turnComplete(s1) ELSE s1
        id == s.nChunks + 1
    IN IF m.audio > 0 /\ s.outputAudioContextRef # 0 /\ s.outputGainNodeRef # 0
       THEN [s2 EXCEPT !.nextStartTimeRef = Max(s.nextStartTimeRef, s.now),
                       !.nChunks = id,
                       !.decodes = s.decodes \cup
                           {[id |-> id, conn |-> c, ctx |-> s.outputAudioContextRef,
                             dur |-> m.audio, interrupted |-> m.interrupted,
                             intr |-> FALSE, recv |-> s.now,
                             intrAt |-> s.intrDone]}]
       ELSE IF m.interrupted THEN interrupt(s2, s.nChunks + 1) ELSE s2

\* lines 1204-1216: the continuation of onmessage after decodeAudioData
\* resolved.  source.connect throws when the output gain node is null or
\* belongs to another context than the one captured at line 1201; the rest
\* of the handler is then skipped.
decodeDone(s, d) ==
    LET rest == s.decodes \ {d}
    IN IF s.outputGainNodeRef # d.ctx
       THEN [s EXCEPT !.decodes = rest]
       ELSE LET at == s.nextStartTimeRef
                s1 == [s EXCEPT
                         !.decodes = rest,
                         !.started = Append(s.started,
                             [id |-> d.id, conn |-> d.conn, at |-> at, when |-> s.now,
                              dur |-> d.dur, intr |-> d.intr,
                              carrier |-> d.interrupted,
                              recv |-> d.recv, intrAt |-> d.intrAt]),
                         !.nextStartTimeRef = at + d.dur,
                         !.sourcesRef = s.sourcesRef \cup
                             {[id |-> d.id, at |-> at, dur |-> d.dur]}]
            IN IF d.interrupted THEN interrupt(s1, d.id) ELSE s1

\* line 1207: the 'ended' listener
onended(s, src) == [s EXCEPT !.sourcesRef = s.sourcesRef \ {src}]

\* -------------------------------------------------------------- compaction
\* the condition of the effect, lines 1277-1279
CompactionDue(s) ==
    /\ Len(s.transcripts) > 0
    /\ Len(s.transcripts) % SUMMARY_THRESHOLD = 0
    /\ s.connectionState = "connected"
    /\ ~s.isSummarizing
    /\ ~IncludesSystem(s.transcripts[Len(s.transcripts)].model)

\* summarizeAndRestart with the handleStopConversation call of line 1251 dropped
summarizeNoStop(s) ==
    IF s.isSummarizing THEN s
    ELSE [s EXCEPT !.isSummarizing = TRUE,
                   !.summaries = Append(s.summaries,
                       [cap |-> s.reconnectAttempts, micGain |-> s.micGain]),
                   !.nSummaryCalls = s.nSummaryCalls + 1]

\* lines 1245-1255: summarizeAndRestart up to its await; the closure's
\* handleStartConversation is the one of the render the effect ran in.
summarizeAndRestart(s) ==
    IF s.isSummarizing THEN s
    ELSE LET r == handleStopConversation([s EXCEPT !.isSummarizing = TRUE])
         IN [r EXCEPT !.summaries = Append(s.summaries,
                          [cap |-> s.reconnectAttempts, micGain |-> s.micGain]),
                      !.nSummaryCalls = s.nSummaryCalls + 1]

\* lines 1276-1283
compactionEffect(s) ==
    IF CompactionDue(s) THEN summarizeAndRestart(s) ELSE s

\* lines 1256-1265: the summary arrived
summaryDone(s, i) ==
    [s EXCEPT !.conversationSummaryRef = "summary",
              !.transcripts = Append(s.transcripts, summaryNotification),
              !.restartTimers = Append(s.restartTimers, s.summaries[i]),
              !.summaries = RemoveAt(s.summaries, i)]

\* lines 1262-1265: the 500 ms timer
restartTimeout(s, i) ==
    [calledBy(handleStartConversation(
                  [s EXCEPT !.restartTimers = RemoveAt(s.restartTimers, i)],
                  FALSE, s.restartTimers[i].cap),
              s.restartTimers[i].micGain, "summary")
     EXCEPT !.isSummarizing = FALSE]

\* summaryFailed with the handleStartConversation call of line 1271 dropped
summaryFailedNoRestart(s, i) ==
    [s EXCEPT !.summaries = RemoveAt(s.summaries, i),
              !.error = TRUE,
              !.isSummarizing = FALSE]

\* lines 1267-1273: the summary request failed.  setError of line 1269 is
\* overwritten by the setError(null) of handleStartConversation (line 1119)
\* in the same batch of updates.
summaryFailed(s, i) ==
    [calledBy(handleStartConversation(
                  [s EXCEPT !.summaries = RemoveAt(s.summaries, i),
                            !.error = TRUE],
                  FALSE, s.summaries[i].cap),
              s.summaries[i].micGain, "catch")
     EXCEPT !.isSummarizing = FALSE]

\* ---------------------------------------------------------------- capture
\* positions of the mic-gain slider (line 1380), in tenths
GainLevels == {0, 10}

\* lines 720-724: the effect that follows a render with a new micGain
micGainEffect(s) ==
    IF s.micGainNodeRef # 0
    THEN [s EXCEPT !.conns = [s.conns EXCEPT ![s.micGainNodeRef].micNodeGain = s.micGain]]
    ELSE s

\* line 1380: the slider's onChange, then the effect
setMicGain(s, g) == micGainEffect([s EXCEPT !.micGain = g])

\* line 1353: the Pause / Resume button; the effect of line 710 copies the
\* flag to isPausedRef
togglePause(s) == [s EXCEPT !.isPaused = ~s.isPaused]

\* audioProcess without the test of line 1170
audioProcessWhilePaused(s, c) ==
    IF s.sessionPromiseRef = 0 THEN s
    ELSE [s EXCEPT !.frames = [sent |-> s.frames.sent + 1,
                               skipped |-> s.frames.skipped,
                               last |-> "frame",
                               gain |-> s.conns[c].micNodeGain,
                               gains |-> s.frames.gains \cup {s.conns[c].micNodeGain},
                               from |-> c, to |-> s.sessionPromiseRef]]

\* lines 1169-1176: onaudioprocess of the script processor of connection c.
\* The input buffer has passed the mic gain node of the same pipeline, and
\* the frame goes to the session the ref holds when the callback runs.
audioProcess(s, c) ==
    IF s.isPaused
    THEN [s EXCEPT !.frames = [s.frames EXCEPT !.skipped = s.frames.skipped + 1,
                                               !.last = "skip"]]
    ELSE IF s.sessionPromiseRef = 0 THEN s
    ELSE [s EXCEPT !.frames = [sent |-> s.frames.sent + 1,
                               skipped |-> s.frames.skipped,
                               last |-> "frame",
                               gain |-> s.conns[c].micNodeGain,
                               gains |-> s.frames.gains \cup {s.conns[c].micNodeGain},
                               from |-> c, to |-> s.sessionPromiseRef]]

\* ------------------------------------------------------------------ tools
\* The tools of the switch of lines 947-1094 by what the dispatch loop does
\* with them: searchWeb awaits a request (line 950) that succeeds or raises,
\* listDocuments runs to its result with no await (lines 990-996), and a
\* name the switch does not know leaves the default result of line 944.
ToolNames == {"searchWeb", "listDocuments", "noSuchTool"}

\* line 1102: session.sendToolResponse({ functionResponses: { id, name,
\* response: { result } } }) on the session the handler obtained at line 937.
\* outcome (how the tool ended), batch (the id of the first function call of
\* the message) and size are history, read by the properties only.
sendToolResponse(out, b, status, message, outcome) ==
    Append(out, [id |-> b.calls[b.pos].id, name |-> b.calls[b.pos].name,
                 status |-> status, message |-> message,
                 session |-> b.session, from |-> b.from,
                 outcome |-> outcome, batch |-> b.calls[1].id,
                 size |-> Len(b.calls)])

\* lines 942-1105: the for loop of handleToolCall from the function call at
\* b.pos up to its next await (or its end).  out: the responses sent so far.
RECURSIVE forLoop(_, _)
forLoop(b, out) ==
    IF b.pos > Len(b.calls) THEN [batch |-> b, out |-> out, done |-> TRUE]
    ELSE LET name == b.calls[b.pos].name
             next == [b EXCEPT !.pos = b.pos + 1]
         IN CASE name = "searchWeb" ->
                     [batch |-> [b EXCEPT !.stage = "exec"], out |-> out, done |-> FALSE]
              [] name = "listDocuments" ->
                     forLoop(next, sendToolResponse(out, b, "success", "none", "returned"))
              [] OTHER ->
                     forLoop(next, sendToolResponse(out, b, "error", "Unknown function",
                                                   "unknown"))

\* the handler of toolCalls[i] runs on from where it stands
continueLoop(s, i) ==
    LET r == forLoop(s.toolCalls[i], s.toolResponses)
    IN [s EXCEPT !.toolResponses = r.out,
                 !.toolCalls = IF r.done THEN RemoveAt(s.toolCalls, i)
                               ELSE [s.toolCalls EXCEPT ![i] = r.batch]]

\* lines 1182-1184 and 934-941: onmessage with a toolCall calls handleToolCall
\* and does not await it.  The handler awaits the session promise the ref
\* holds at that moment: with no promise it returns; with a resolved one it
\* runs on in the same turn; with a pending one it waits for the open.
handleToolCall(s, c, names) ==
    LET calls == [k \in 1..Len(names) |-> [id |-> s.nToolCalls + k, name |-> names[k]]]
        s1 == [s EXCEPT !.error = FALSE,
                        !.nToolCalls = s.nToolCalls + Len(names)]
        b == [session |-> s.sessionPromiseRef, from |-> c, calls |-> calls,
              pos |-> 1, stage |-> "session"]
        s2 == [s1 EXCEPT !.toolCalls = Append(s.toolCalls, b)]
    IN IF s.sessionPromiseRef = 0 THEN s1
       ELSE IF s.conns[s.sessionPromiseRef].status = "opening" THEN s2
       ELSE continueLoop(s2, Len(s2.toolCalls))

\* line 937: the awaited session promise resolved
toolSession(s, i) == continueLoop(s, i)

\* toolSettled answering a failed tool with the status of a successful one
toolSettledHidesError(s, i, raised) ==
    LET b == s.toolCalls[i]
        out == sendToolResponse(s.toolResponses, b, "success", "none",
                                IF raised THEN "raised" ELSE "returned")
    IN continueLoop([s EXCEPT !.toolResponses = out,
                              !.error = s.error \/ raised,
                              !.toolCalls = [s.toolCalls EXCEPT ![i].pos = b.pos + 1]], i)

\* lines 950-972 and 1096-1104: the request searchWeb awaited settled; the
\* result (or, from the catch, the error) is sent and the loop goes on.
toolSettled(s, i, raised) ==
    LET b == s.toolCalls[i]
        out == IF raised
               THEN sendToolResponse(s.toolResponses, b, "error", "e.message", "raised")
               ELSE sendToolResponse(s.toolResponses, b, "success", "none", "returned")
    IN continueLoop([s EXCEPT !.toolResponses = out,
                              !.error = s.error \/ raised,
                              !.toolCalls = [s.toolCalls EXCEPT ![i].pos = b.pos + 1]], i)

\* -------------------------------------------------------------- text chat
\* The handlers of ChatBot are operators on the record b of its state.
ChatMsg(role, text) == [role |-> role, text |-> text]
userMessage == ChatMsg("user", Hi)
modelMessage == ChatMsg("model", Ok)
\* line 288
historySummaryNotification ==
    ChatMsg("model", << "For", "brevity,", "I've", "summarized", "our", "conversation",
                        "for", "my", "own", "context." >>)
\* line 293
errorNotification ==
    ChatMsg("model", << "Failed", "to", "summarize", "our", "conversation", "for", "my",
                        "context." >>)
\* a stored history of n messages, user and model in turn
StoredHistory(n) == [k \in 1..n |-> IF k % 2 = 1 THEN userMessage ELSE modelMessage]

\* String.prototype.includes("summarized our conversation") on a text, line 423
IncludesSummarized(text) ==
    \E i \in 1..(Len(text) - 2) :
        text[i] = "summarized" /\ text[i + 1] = "our" /\ text[i + 2] = "conversation"

\* lines 265-269: summarizeHistory up to its first await.  chat is never null
\* once the effect of lines 103-110 has run.
summarizeHistory(b) ==
    IF Len(b.messages) < HISTORY_SUMMARY_THRESHOLD \/ b.isLoading THEN b
    ELSE [b EXCEPT !.isSummarizing = TRUE,
                   !.calls = Append(b.calls, [stage |-> "history",
                                              history |-> b.chat.history]),
                   !.nSummarize = b.nSummarize + 1]

\* lines 420-427: the summarization trigger effect
summaryTrigger(b) ==
    IF /\ Len(b.messages) >= HISTORY_SUMMARY_THRESHOLD
       /\ ~b.isSummarizing
       /\ ~b.isLoading
       /\ ~IncludesSummarized(b.messages[Len(b.messages)].text)
    THEN summarizeHistory(b)
    ELSE b

\* The renders after a handler of ChatBot.  In the first the trigger effect
\* runs with the chat of the previous render, and the effect of lines 103-110
\* makes a chat whose history is the messages; the render that setChat causes
\* runs the trigger effect again with that chat.
chatRender(b) ==
    LET b1 == summaryTrigger(b)
    IN summaryTrigger([b1 EXCEPT !.chat = [history |-> Len(b.messages)]])

\* lines 75-99: initializeChatState resolved with the stored history h
historyLoaded(b, h) == [b EXCEPT !.messages = h, !.loaded = TRUE]

\* lines 180-185: handleSend with a non-empty input, up to its first await
handleSend(b) ==
    IF b.isLoading \/ b.isSummarizing THEN b
    ELSE [b EXCEPT !.messages = Append(b.messages, userMessage),
                   !.isLoading = TRUE]

\* lines 224-261: the reply was streamed, or the request failed; either way
\* one model message has been appended when the finally block runs
replyDone(b) ==
    [b EXCEPT !.messages = Append(b.messages, modelMessage),
              !.isLoading = FALSE]

\* lines 270-274: chat.getHistory() resolved
historyDone(b, i) ==
    IF b.calls[i].history = 0
    THEN [b EXCEPT !.isSummarizing = FALSE, !.calls = RemoveAt(b.calls, i)]
    ELSE [b EXCEPT !.calls = [b.calls EXCEPT ![i].stage = "summary"]]

\* lines 275-297: summarizeConversation resolved (ok) or rejected.  The chat
\* of line 286 is replaced by the effect of lines 103-110 in the next render.
summarizeDone(b, i, ok) ==
    [b EXCEPT !.messages = Append(b.messages, IF ok THEN historySummaryNotification
                                                ELSE errorNotification),
              !.isSummarizing = FALSE,
              !.calls = RemoveAt(b.calls, i)]

\* --------------------------------------------------------- other handlers
\* line 1449: onDismiss of the error display
dismissError(s) == [s EXCEPT !.error = FALSE]

\* lines 847-878: stops the session and starts reading the file
handleLoadSession(s) ==
    [handleStopConversation(s) EXCEPT !.error = FALSE, !.reads = s.reads + 1,
                                      !.nLoads = s.nLoads + 1]

\* lines 857-871: reader.onload
readerOnload(s, loaded) ==
    [s EXCEPT !.transcripts = loaded, !.reads = s.reads - 1]

\* lines 788-812 with a text and no image: the text is appended as a turn
handleSendMessage(s, text) ==
    [s EXCEPT !.transcripts = Append(s.transcripts, [user |-> text, model |-> NoText])]

\* lines 1229: the reconnect timer calls handleStartConversation(true) of the
\* closure that armed it
reconnectTimeout(s, i) ==
    calledBy(handleStartConversation([s EXCEPT !.timers = RemoveAt(s.timers, i)],
                                     TRUE, s.timers[i].cap),
             s.timers[i].micGain, "retry")

\* ================================================================ actions
\* The render after a handler: the effect of lines 1276-1283 runs on the
\* state the handler left, and the result is the next state.
Commit(s0) ==
    LET s == compactionEffect(s0)
    IN /\ connectionState' = s.connectionState
       /\ reconnectAttempts' = s.reconnectAttempts
       /\ transcripts' = s.transcripts
       /\ currentInterim' = s.currentInterim
       /\ isSummarizing' = s.isSummarizing
       /\ isPaused' = s.isPaused
       /\ micGain' = s.micGain
       /\ error' = s.error
       /\ sessionPromiseRef' = s.sessionPromiseRef
       /\ mediaStreamRef' = s.mediaStreamRef
       /\ audioContextRef' = s.audioContextRef
       /\ outputAudioContextRef' = s.outputAudioContextRef
       /\ outputGainNodeRef' = s.outputGainNodeRef
       /\ scriptProcessorRef' = s.scriptProcessorRef
       /\ micGainNodeRef' = s.micGainNodeRef
       /\ conversationSummaryRef' = s.conversationSummaryRef
       /\ nextStartTimeRef' = s.nextStartTimeRef
       /\ sourcesRef' = s.sourcesRef
       /\ conns' = s.conns
       /\ starts' = s.starts
       /\ nStarts' = s.nStarts
       /\ timers' = s.timers
       /\ summaries' = s.summaries
       /\ restartTimers' = s.restartTimers
       /\ reads' = s.reads
       /\ nLoads' = s.nLoads
       /\ decodes' = s.decodes
       /\ now' = s.now
       /\ closedContexts' = s.closedContexts
       /\ toolCalls' = s.toolCalls
       /\ nToolCalls' = s.nToolCalls
       /\ autoRetries' = s.autoRetries
       /\ started' = s.started
       /\ stopped' = s.stopped
       /\ nChunks' = s.nChunks
       /\ intrDone' = s.intrDone
       /\ nSummaryCalls' = s.nSummaryCalls
       /\ toolResponses' = s.toolResponses
       /\ frames' = s.frames
       /\ lastTurnMsg' = s.lastTurnMsg
       /\ chatBot' = chatBot

\* The Start button, lines 1334-1340: shown unless connected, disabled while
\* busy.
UserStart(maxS) ==
    /\ connectionState # "connected"
    /\ ~isBusy(Cur)
    /\ nStarts < maxS
    /\ Commit(handleStartConversation(Cur, FALSE, reconnectAttempts))

\* getUserMedia resolves (line 1122)
MediaGranted ==
    \E i \in DOMAIN starts :
        /\ starts[i].stage = "media"
        /\ Commit(mediaGranted(Cur, i))

\* getVoicePreference resolves (line 1137) and connectLive is issued
ConnectLive ==
    \E i \in DOMAIN starts :
        /\ starts[i].stage = "voice"
        /\ Commit(connectLive(Cur, i))

\* getUserMedia or getVoicePreference rejects
StartFailed ==
    \E i \in DOMAIN starts : Commit(startFailed(Cur, i))

\* the remote acknowledges the open
OnOpen ==
    \E c \in DOMAIN conns :
        /\ conns[c].status = "opening"
        /\ \E throws \in (IF conns[c].ctx \in closedContexts THEN BOOLEAN ELSE {FALSE}) :
               Commit(onopen(Cur, c, throws))

\* The close codes a channel in the given status can report (e.code, line
\* 1225).  The remote end may close an open channel either way; a close the
\* client asked for ends normally when the closing handshake completes and
\* abnormally when the link is lost first; a channel that fails, or never
\* opens, closes abnormally.
CloseCodes(status) ==
    CASE status = "closing" -> {NormalClosure, AbnormalClosure}
      [] status = "open" -> {NormalClosure, AbnormalClosure}
      [] status = "opening" -> {AbnormalClosure}
      [] status = "failing" -> {AbnormalClosure}
      [] OTHER -> {}

OnClose ==
    \E c \in DOMAIN conns :
        \E code \in CloseCodes(conns[c].status) :
            Commit(onclose(Cur, c, code))

OnError ==
    \E c \in DOMAIN conns :
        /\ conns[c].status \in {"opening", "open"}
        /\ Commit(onerror(Cur, c))

ReconnectTimeout(maxS) ==
    \E i \in DOMAIN timers :
        /\ nStarts < maxS
        /\ Commit(reconnectTimeout(Cur, i))

\* The Stop button, lines 1341-1348: shown while connected
UserStop ==
    /\ connectionState = "connected"
    /\ Commit(handleStopConversation(Cur))

DismissError ==
    /\ error
    /\ Commit(dismissError(Cur))

\* The load-session input, lines 1363-1367: always enabled
LoadSession ==
    /\ reads = 0
    /\ nLoads < MaxLoads
    /\ Commit(handleLoadSession(Cur))

LoadedTranscripts == { << >>, << HiTurn >> }

ReaderOnload ==
    /\ reads > 0
    /\ \E loaded \in LoadedTranscripts : Commit(readerOnload(Cur, loaded))

\* The Send button, line 1400: enabled while connected; line 789 awaits the
\* session promise, line 790 returns without a session.
SendMessage(maxTr) ==
    /\ connectionState = "connected"
    /\ sessionPromiseRef # 0
    /\ conns[sessionPromiseRef].status \in {"open", "closing", "closed"}
    /\ Len(transcripts) < maxTr
    /\ Commit(handleSendMessage(Cur, Hi))

\* An inbound message on an open channel.  maxTr bounds the transcript and
\* maxText the open turn.
OnMessage(msgs, maxTr, maxText) ==
    \E c \in DOMAIN conns :
        /\ conns[c].status = "open"
        /\ \E m \in msgs :
            /\ Len(currentInterim.user) + Len(m.user) <= maxText
            /\ Len(currentInterim.model) + Len(m.model) <= maxText
            /\ m.turnComplete => Len(transcripts) < maxTr
            /\ m.audio > 0 => nChunks < MaxChunks
            /\ m.interrupted =>
                   intrDone + Cardinality({d \in decodes : d.interrupted}) < MaxInterrupts
            /\ Commit(onmessage(Cur, c, m))

DecodeDone ==
    \E d \in decodes : Commit(decodeDone(Cur, d))

\* the playback clock advances
Tick ==
    /\ outputAudioContextRef # 0
    /\ now < MaxTime
    /\ Commit([Cur EXCEPT !.now = now + 1])

\* a source has played to its end
SourceEnded ==
    \E src \in sourcesRef :
        /\ src.at + src.dur <= now
        /\ Commit(onended(Cur, src))

SummaryDone ==
    \E i \in DOMAIN summaries : Commit(summaryDone(Cur, i))

SummaryFailed(maxS) ==
    \E i \in DOMAIN summaries :
        /\ nStarts < maxS
        /\ Commit(summaryFailed(Cur, i))

RestartTimeout(maxS) ==
    \E i \in DOMAIN restartTimers :
        /\ nStarts < maxS
        /\ Commit(restartTimeout(Cur, i))

\* the mic-gain slider is moved
SetMicGain ==
    \E g \in GainLevels \ {micGain} : Commit(setMicGain(Cur, g))

\* The Pause / Resume button, lines 1352-1356: shown while connected
TogglePause ==
    /\ connectionState = "connected"
    /\ Commit(togglePause(Cur))

\* the script processor of a live pipeline delivers a buffer
AudioProcess ==
    \E c \in DOMAIN conns :
        /\ conns[c].tap
        /\ frames.sent + frames.skipped < MaxCallbacks
        /\ Commit(audioProcess(Cur, c))

\* the function calls of one toolCall message
ToolBatches ==
    UNION { [1..n -> ToolNames] : n \in 1..MaxBatchLen }

\* an inbound message with a toolCall; maxCalls bounds the function calls of
\* one behaviour
OnToolCall(maxCalls) ==
    \E c \in DOMAIN conns :
        /\ conns[c].status = "open"
        /\ \E names \in ToolBatches :
            /\ nToolCalls + Len(names) <= maxCalls
            /\ Commit(handleToolCall(Cur, c, names))

\* the session promise a handleToolCall waits for resolves with the open
ToolSession ==
    \E i \in DOMAIN toolCalls :
        /\ toolCalls[i].stage = "session"
        /\ conns[toolCalls[i].session].opened
        /\ Commit(toolSession(Cur, i))

\* the request a tool awaits succeeds or raises
ToolSettled ==
    \E i \in DOMAIN toolCalls :
        /\ toolCalls[i].stage = "exec"
        /\ \E raised \in BOOLEAN : Commit(toolSettled(Cur, i, raised))

\* the renders after a handler of ChatBot; LiveConversation is another
\* component
ChatCommit(b) ==
    /\ chatBot' = chatRender(b)
    /\ UNCHANGED liveVars

\* the stored chat history arrives
HistoryLoaded ==
    /\ ~chatBot.loaded
    /\ \E n \in 0..MaxStored : ChatCommit(historyLoaded(chatBot, StoredHistory(n)))

\* The Send button, line 501
Send ==
    /\ chatBot.loaded
    /\ ~chatBot.isLoading
    /\ ~chatBot.isSummarizing
    /\ Len(chatBot.messages) < MaxMessages
    /\ ChatCommit(handleSend(chatBot))

ReplyDone ==
    /\ chatBot.isLoading
    /\ Len(chatBot.messages) < MaxMessages
    /\ ChatCommit(replyDone(chatBot))

HistoryDone ==
    \E i \in DOMAIN chatBot.calls :
        /\ chatBot.calls[i].stage = "history"
        /\ ChatCommit(historyDone(chatBot, i))

SummarizeDone ==
    \E i \in DOMAIN chatBot.calls :
        /\ chatBot.calls[i].stage = "summary"
        /\ Len(chatBot.messages) < MaxMessages
        /\ \E ok \in BOOLEAN : ChatCommit(summarizeDone(chatBot, i, ok))

\* ---------------------------------------------------------------- inputs
Msg(u, mo, tc, a, i) ==
    [user |-> u, model |-> mo, turnComplete |-> tc, audio |-> a, interrupted |-> i]

\* Spec and SpecCompaction: a user delta with or without the turn-complete signal
ConnMsgs == { Msg(Hi, NoText, tc, 0, FALSE) : tc \in BOOLEAN }

\* SpecTurns: every combination of deltas and turn-complete
TurnMsgs == { Msg(u, mo, tc, 0, FALSE) :
                u \in {NoText, Hi}, mo \in {NoText, Ok}, tc \in BOOLEAN }

\* SpecAudio: audio chunks of duration 1 or 2, interruption signals, or both
AudioMsgs == { Msg(NoText, NoText, FALSE, a, i) : a \in 0..2, i \in BOOLEAN }
                 \ { Msg(NoText, NoText, FALSE, 0, FALSE) }

\* --------------------------------------------------------- specifications
\* Spec: connection lifecycle with the user's stops, the error paths and the
\* session files, on transcripts shorter than SUMMARY_THRESHOLD
Next ==
    \/ UserStart(MaxStarts)
    \/ MediaGranted
    \/ ConnectLive
    \/ StartFailed
    \/ OnOpen
    \/ OnClose
    \/ OnError
    \/ ReconnectTimeout(MaxStarts)
    \/ UserStop
    \/ LoadSession
    \/ ReaderOnload
    \/ SendMessage(MaxLifeTranscript)
    \/ OnMessage(ConnMsgs, MaxLifeTranscript, MaxConnText)
    \/ DismissError

Spec == Init /\ [][Next]_vars

\* SpecCompaction: transcripts that reach SUMMARY_THRESHOLD, across stops,
\* reconnects and session files
NextCompaction ==
    \/ UserStart(MaxStarts)
    \/ MediaGranted
    \/ ConnectLive
    \/ OnOpen
    \/ OnClose
    \/ ReconnectTimeout(MaxStarts)
    \/ UserStop
    \/ LoadSession
    \/ ReaderOnload
    \/ SendMessage(MaxTranscript)
    \/ OnMessage(ConnMsgs, MaxTranscript, MaxConnText)
    \/ SummaryDone
    \/ SummaryFailed(MaxStarts)
    \/ RestartTimeout(MaxStarts)

SpecCompaction == Init /\ [][NextCompaction]_vars

\* SpecRetry: repeated reconnection of a session the user never stops
NextRetry ==
    \/ UserStart(MaxRetryStarts)
    \/ MediaGranted
    \/ ConnectLive
    \/ StartFailed
    \/ OnOpen
    \/ OnClose
    \/ ReconnectTimeout(MaxRetryStarts)

SpecRetry == Init /\ [][NextRetry]_vars

\* SpecTurns: the transcript assembler under every message shape
NextTurns ==
    \/ UserStart(MaxAudioStarts)
    \/ MediaGranted
    \/ ConnectLive
    \/ OnOpen
    \/ OnClose
    \/ UserStop
    \/ OnMessage(TurnMsgs, MaxTurns, MaxTextLen)

SpecTurns == Init /\ [][NextTurns]_vars

\* SpecAudio: the playback scheduler
NextAudio ==
    \/ UserStart(MaxAudioStarts)
    \/ MediaGranted
    \/ ConnectLive
    \/ OnOpen
    \/ OnClose
    \/ UserStop
    \/ OnMessage(AudioMsgs, MaxTurns, MaxConnText)
    \/ DecodeDone
    \/ Tick
    \/ SourceEnded

SpecAudio == Init /\ [][NextAudio]_vars

\* SpecCapture: the capture path of one session
NextCapture ==
    \/ UserStart(MaxCaptureStarts)
    \/ MediaGranted
    \/ ConnectLive
    \/ OnOpen
    \/ OnClose
    \/ ReconnectTimeout(MaxCaptureStarts)
    \/ UserStop
    \/ SetMicGain
    \/ TogglePause
    \/ AudioProcess

SpecCapture == Init /\ [][NextCapture]_vars

\* SpecChat: the text chat and its history summarization
NextChat ==
    \/ HistoryLoaded
    \/ Send
    \/ ReplyDone
    \/ HistoryDone
    \/ SummarizeDone

SpecChat == Init /\ [][NextChat]_vars

\* SpecTools: the tool dispatcher on one session
NextTools ==
    \/ UserStart(MaxToolStarts)
    \/ MediaGranted
    \/ ConnectLive
    \/ OnOpen
    \/ OnClose
    \/ UserStop
    \/ OnToolCall(MaxToolCalls)
    \/ ToolSettled

SpecTools == Init /\ [][NextTools]_vars

\* SpecToolsLife: one function call across stops, reconnects and restarts
NextToolsLife ==
    \/ UserStart(MaxLifeStarts)
    \/ MediaGranted
    \/ ConnectLive
    \/ OnOpen
    \/ OnClose
    \/ ReconnectTimeout(MaxLifeStarts)
    \/ UserStop
    \/ LoadSession
    \/ OnToolCall(MaxLifeToolCalls)
    \/ ToolSession
    \/ ToolSettled

SpecToolsLife == Init /\ [][NextToolsLife]_vars

\* ================================================================= claims
Live(c) == conns[c].status \in {"opening", "open"}

\* C1: in a run of involuntary closes with no successful open in between, the
\* automatic retries handleStartConversation(true) never number more than
\* MAX_RECONNECT_ATTEMPTS.
C1_RetriesBounded == autoRetries <= MAX_RECONNECT_ATTEMPTS

\* C2: the close event of a close the client asked for (handleStopConversation)
\* never moves the state to 'reconnecting', arms no reconnect timer and calls
\* no handleStartConversation.
VoluntaryCloseEvent ==
    \E c \in DOMAIN conns :
        /\ conns[c].status = "closing"
        /\ conns[c].voluntary
        /\ conns'[c].status = "closed"

C2_VoluntaryCloseNoReconnect ==
    [][VoluntaryCloseEvent =>
          /\ connectionState' # "reconnecting"
          /\ timers' = timers
          /\ nStarts' = nStarts
          /\ starts' = starts]_vars

\* C3: at most one connection is open or being opened at any time.
C3_AtMostOneConnection ==
    Cardinality({c \in DOMAIN conns : Live(c)}) <= 1

\* C8: a message with the turn-complete signal appends the open turn (with the
\* deltas of the same message) to the transcript if and only if its user or
\* its model text is non-empty, and leaves the open turn empty; so a second
\* turn-complete with no delta in between appends nothing.
TurnCompleteStep ==
    lastTurnMsg'.tick # lastTurnMsg.tick /\ lastTurnMsg'.turnComplete

C8_TurnComplete ==
    [][TurnCompleteStep =>
          LET m == lastTurnMsg'.m
              open == [user |-> currentInterim.user \o m.user,
                       model |-> currentInterim.model \o m.model]
          IN /\ currentInterim' = EmptyTurn
             /\ transcripts' = IF open.user # NoText \/ open.model # NoText
                               THEN Append(transcripts, open)
                               ELSE transcripts]_vars

\* C8 witness: after the turn 'Hi' was closed, a turn-complete with no delta
\* arrived on an empty open turn and the transcript holds the one turn
C8_Witness ==
    /\ lastTurnMsg.turnComplete
    /\ lastTurnMsg.m = EmptyTurn
    /\ lastTurnMsg.open = EmptyTurn
    /\ transcripts = << HiTurn >>
    /\ currentInterim = EmptyTurn

\* C9: every step of an automatic reconnect (the timer's
\* handleStartConversation(true) and its continuations) leaves the transcript
\* and the open turn unchanged; and the transcript only ever grows by one
\* appended turn, except when a non-retry start or a loaded session file
\* replaces it.
RetryStep ==
    \/ Len(timers') < Len(timers)
    \/ \E i \in DOMAIN starts :
          /\ starts[i].isRetry
          /\ starts' # starts
          /\ \/ starts' = RemoveAt(starts, i)
             \/ starts' = [starts EXCEPT ![i].stage = "voice"]

NonRetryStartStep ==
    nStarts' = nStarts + 1 /\ ~starts'[Len(starts')].isRetry

GrowsByAtMostOne(old, new) ==
    /\ Len(old) <= Len(new)
    /\ Len(new) <= Len(old) + 1
    /\ SubSeq(new, 1, Len(old)) = old

C9_RetryKeepsTranscript ==
    [][/\ RetryStep => transcripts' = transcripts /\ currentInterim' = currentInterim
       /\ \/ GrowsByAtMostOne(transcripts, transcripts')
          \/ NonRetryStartStep
          \/ reads' < reads]_vars

\* C9 witness: a reconnect is under way with a closed turn in the transcript
\* and text in the open turn
C9_Witness ==
    /\ \E i \in DOMAIN starts : starts[i].isRetry /\ starts[i].stage = "voice"
    /\ Len(transcripts) > 0
    /\ currentInterim # EmptyTurn

\* C10: when the transcript reaches a multiple of SUMMARY_THRESHOLD entries
\* while connected and not compacting, one summarization request is issued at
\* once and the session is stopped; never more than one compaction runs; and
\* the restart that ends it starts a new connection attempt with an empty
\* transcript.
CompactionTrigger == nSummaryCalls' # nSummaryCalls

CompactionRestart ==
    \/ Len(restartTimers') < Len(restartTimers)
    \/ Len(summaries') < Len(summaries) /\ restartTimers' = restartTimers

Stopped(c) ==
    conns'[c].closeReq \/ conns'[c].status \in {"closing", "failing", "closed"}

C4_InterruptClearsPlayback ==
    [][intrDone' # intrDone =>
          /\ sourcesRef' = {}
          /\ \A src \in sourcesRef : src.id \in stopped']_vars

\* C4 witness: in the first session, still connected, an interruption was
\* processed and stopped a source started by an earlier message
C4_Witness ==
    /\ intrDone > 0
    /\ \E i \in DOMAIN started : started[i].id \in stopped /\ ~started[i].carrier
    /\ nStarts = 1
    /\ connectionState = "connected"

\* C5: no chunk received before an interruption signal is started after the
\* interruption was processed.
C5_NoStartAfterInterrupt ==
    \A i \in DOMAIN started : ~started[i].intr

\* C6: with no interruption, the chunks of one connection are started in
\* receipt order, each no earlier than the end of the one started before it.
C6_InOrderNoOverlap ==
    intrDone = 0 =>
        \A i, j \in DOMAIN started :
            (i < j /\ started[i].conn = started[j].conn) =>
                /\ started[i].id < started[j].id
                /\ started[j].at >= started[i].at + started[i].dur

\* C7: source.start is never given a time before the playback clock's
\* current time.
C7_NeverInPast ==
    \A i \in DOMAIN started : started[i].at >= started[i].when

\* C11: when the summarization request of a compaction fails, the step that
\* handles the failure calls handleStartConversation(false), clears the
\* compacting flag and leaves no stored summary; the connection that start
\* opens gets the persona context with no summary prepended.
FailedSummaryStep ==
    Len(summaries') < Len(summaries) /\ restartTimers' = restartTimers

C11_FailedSummaryRestarts ==
    /\ [](\A c \in DOMAIN conns : conns[c].origin = "catch" => ~conns[c].summary)
    /\ [][FailedSummaryStep =>
             /\ nStarts' = nStarts + 1
             /\ starts'[Len(starts')].origin = "catch"
             /\ ~starts'[Len(starts')].isRetry
             /\ connectionState' = "connecting"
             /\ ~isSummarizing'
             /\ conversationSummaryRef' = "null"]_vars

\* C11 witness: the connection started after a failed summarization is open
C11_Witness ==
    /\ \E c \in DOMAIN conns :
          conns[c].origin = "catch" /\ conns[c].status = "open" /\ ~conns[c].summary
    /\ connectionState = "connected"
    /\ ~isSummarizing

\* C12: the connection started after a successful summarization gets the
\* stored summary prepended to the persona context.
C12_SummaryPrepended ==
    \A c \in DOMAIN conns : conns[c].origin = "summary" => conns[c].summary

\* C17: after handleStopConversation on a connected session the state is
\* 'idle', and the close event of the stopped session leaves it 'idle'.
C17_StopIsTerminal ==
    [][(VoluntaryCloseEvent /\ connectionState = "idle") =>
          connectionState' = "idle"]_vars

\* C20: when getUserMedia rejects, the state becomes 'error' with the error
\* shown, and the step opens no connection, arms no reconnect timer and
\* calls no handleStartConversation.
MicFailedStep ==
    \E i \in DOMAIN starts :
        /\ starts[i].stage = "media"
        /\ starts' = RemoveAt(starts, i)

C20_MicFailure ==
    [][MicFailedStep =>
          /\ connectionState' = "error"
          /\ error'
          /\ conns' = conns
          /\ sessionPromiseRef' = sessionPromiseRef
          /\ timers' = timers
          /\ nStarts' = nStarts]_vars

\* C20 witness: the first start failed at the microphone; no connection exists
C20_Witness ==
    /\ connectionState = "error"
    /\ error
    /\ nStarts = 1
    /\ starts = << >>
    /\ conns = << >>
    /\ timers = << >>

\* C13: every function call received has, once its handler is past it,
\* exactly one sendToolResponse with its own id, and none before.
Answers(id) == { i \in DOMAIN toolResponses : toolResponses[i].id = id }

PendingCall(id) ==
    \E i \in DOMAIN toolCalls :
        \E k \in DOMAIN toolCalls[i].calls :
            k >= toolCalls[i].pos /\ toolCalls[i].calls[k].id = id

C13_OneResponsePerCall ==
    \A id \in 1..nToolCalls :
        Cardinality(Answers(id)) = IF PendingCall(id) THEN 0 ELSE 1

\* C14: the function calls of one message run concurrently: while one of
\* them waits for its tool, no later call of the message is still unstarted.
C14_BatchConcurrent ==
    \A i \in DOMAIN toolCalls :
        toolCalls[i].stage = "exec" => toolCalls[i].pos = Len(toolCalls[i].calls)

\* C15: a function call whose tool raised, or whose name is unknown, is
\* answered with status 'error' and a message; a step that sends responses
\* changes neither the connection state nor the session handle nor any
\* connection; and every later call of the same message is still pending or
\* has been answered once.
FailedResponse(r) == r.outcome \in {"raised", "unknown"}

C15_ToolFailure ==
    /\ [](\A i \in DOMAIN toolResponses :
            LET r == toolResponses[i]
            IN FailedResponse(r) =>
                 /\ r.status = "error"
                 /\ r.message # "none"
                 /\ \A id \in (r.id + 1)..(r.batch + r.size - 1) :
                        Cardinality(Answers(id)) = IF PendingCall(id) THEN 0 ELSE 1)
    /\ [][toolResponses' # toolResponses =>
             /\ connectionState' = connectionState
             /\ sessionPromiseRef' = sessionPromiseRef
             /\ conns' = conns]_vars

\* C15 witness: in one message the first call's tool raised and was answered
\* with an error, the second call was answered with a success, and the
\* session is still connected
C15_Witness ==
    /\ \E i, j \in DOMAIN toolResponses :
          /\ toolResponses[i].outcome = "raised"
          /\ toolResponses[i].status = "error"
          /\ toolResponses[j].batch = toolResponses[i].batch
          /\ toolResponses[j].id > toolResponses[i].id
          /\ toolResponses[j].status = "success"
    /\ connectionState = "connected"
    /\ sessionPromiseRef # 0

\* C16: a change of micGain while connected sets the gain of every capture
\* pipeline whose callback is live to the new value, so that the next frame
\* emitted carries it.
C16_MicGainLive ==
    [][(micGain' # micGain /\ connectionState = "connected") =>
          \A c \in DOMAIN conns :
              conns'[c].tap => conns'[c].micNodeGain = micGain']_vars

\* C18: the first chunk of a connection to be started has nothing of an
\* earlier connection queued ahead of it: its start time is not later than
\* the time its playback clock shows when it is started.
C18_TimelineReestablished ==
    \A i \in DOMAIN started :
        (\A j \in 1..(i - 1) : started[j].conn # started[i].conn)
        => started[i].at <= started[i].when

C21_ResultOnReceivingConnection ==
    \A k \in DOMAIN toolResponses : toolResponses[k].session = toolResponses[k].from

\* C22: when the restart that ends a successful compaction has started the
\* new connection attempt, the transcript holds the summary notification.
C22_NotificationKept ==
    [][Len(restartTimers') < Len(restartTimers) =>
          \E k \in DOMAIN transcripts' : transcripts'[k] = summaryNotification]_vars

\* C23: on a single connection, the first chunk to arrive after an
\* interruption was processed, when it is started before every later chunk
\* and is not overtaken by a later interruption, is started at the current
\* time of the playback clock: not before the time it arrived and not after
\* the time it is started.
C23_CleanAfterInterrupt ==
    \A i \in DOMAIN started :
        ( /\ Len(conns) = 1
          /\ started[i].intrAt > 0
          /\ ~started[i].intr
          /\ \A j \in DOMAIN started :
                 started[j].intrAt = started[i].intrAt =>
                     (started[j].id >= started[i].id /\ j >= i) )
        => /\ started[i].recv <= started[i].at
           /\ started[i].at <= started[i].when

\* the error callback of a channel has been handled
ErrorEvent ==
    \E c \in DOMAIN conns : conns[c].status # "failing" /\ conns'[c].status = "failing"

\* C24: when the error callback of a channel has been handled an error is
\* shown and the connection state is 'error'.
C24_ErrorState ==
    [][ErrorEvent => (error' /\ connectionState' = "error")]_vars

\* C25: a reconnect timer starts a connection attempt only while the state is
\* still 'reconnecting': after handleStopConversation (state 'idle') no
\* pending timer calls handleStartConversation.
C25_StopCancelsRetry ==
    [][Len(timers') < Len(timers) => connectionState = "reconnecting"]_vars

\* C26: while the state is 'idle' (handleStopConversation has run and no
\* start was invoked since) no step makes the session 'connected' and no
\* step attaches a capture tap.
C26_StopWhileConnecting ==
    [][connectionState = "idle" =>
          /\ connectionState' # "connected"
          /\ \A c \in DOMAIN conns : conns'[c].tap => conns[c].tap]_vars

\* C27: when the connection of an automatic reconnect has its capture tap
\* (a script processor whose callback runs) live, no tap of another
\* connection is live.
C27_OneCaptureTap ==
    \A c \in DOMAIN conns :
        (conns[c].origin = "retry" /\ conns[c].tap) =>
            \A d \in DOMAIN conns : conns[d].tap => d = c

\* the close event of a connection other than the current one, while the
\* current one is open
SupersededCloseEvent ==
    /\ sessionPromiseRef # 0
    /\ conns[sessionPromiseRef].status = "open"
    /\ \E c \in DOMAIN conns :
           /\ c # sessionPromiseRef
           /\ conns[c].status # "closed"
           /\ conns'[c].status = "closed"

\* C28: the close event of a superseded connection changes neither the
\* connection state nor the reconnect counter and arms no reconnect timer.
C28_SupersededClose ==
    [][SupersededCloseEvent =>
          UNCHANGED << connectionState, reconnectAttempts, timers >>]_vars

\* C29: whenever the session is connected, the gain of the mic gain node the
\* ref holds equals the micGain setting.
C29_GainFollowsSetting ==
    (connectionState = "connected" /\ micGainNodeRef # 0) =>
        conns[micGainNodeRef].micNodeGain = micGain

\* a summarizeConversation request of the text chat has failed
HistorySummaryFailed ==
    /\ Len(chatBot'.messages) = Len(chatBot.messages) + 1
    /\ chatBot'.messages[Len(chatBot'.messages)] = errorNotification

\* C30: a failed history summarization issues no further summarization
\* attempt: when it has been handled no summarizeHistory call is in flight.
C30_FailureDoesNotRetrigger ==
    [][HistorySummaryFailed =>
          /\ chatBot'.nSummarize = chatBot.nSummarize
          /\ ~chatBot'.isSummarizing]_vars

====
